---- MODULE Spec2Model ----
(***************************************************************************)
(* The quote-of-the-day API.  Subscription lifecycle: the subscriptions    *)
(* table, SubscriptionRepository, SubscriptionService, the upgrade route   *)
(* and the Stripe webhook endpoint; the billing provider is an environment *)
(* whose every call either answers or raises StripeError.  Accounts: the   *)
(* users table, UserRepository, AuthService and its tokens.  Rate          *)
(* limiting: RateLimiter.is_allowed and the rate_limit decorator.          *)
(***************************************************************************)
EXTENDS Integers, Sequences, FiniteSets, TLC

VARIABLES
    subs,       \* the subscriptions table: a sequence of rows, row id = index
    pc,         \* per upgrade request: position inside upgrade_to_premium
    req,        \* per upgrade request: locals of upgrade_to_premium
    attempts,   \* number of upgrade requests that went on to the billing provider
    now,        \* the latest reading of the clock (datetime.utcnow())
    last,       \* the most recently completed operation and what it returned
    users,      \* the users table: a sequence of rows, row id = index
    areq,       \* per auth request in flight: its position and its locals
    ntok,       \* number of tokens secrets.token_urlsafe has handed out
    clock,      \* time.time(), in whole seconds since the model starts
    cache,      \* per rate-limit key: its cache entry, or None
    admitted,   \* the times of the is_allowed calls that answered True
    served,     \* what the login requests of this instant were answered with
    issued,     \* the access tokens create_access_token has signed so far
    lreq        \* per is_allowed call in flight: its position and its locals

\* the state of the auth endpoints and of the rate limiter, which the
\* subscription operations leave alone
authVars == <<users, areq, ntok>>
limiterVars == <<cache, admitted, served, lreq>>
\* the access tokens in circulation
sessionVars == <<issued>>
\* the state of the subscription operations
subscriptionVars == <<subs, pc, req, attempts, now>>

vars == <<subs, pc, req, attempts, now, last,
          users, areq, ntok, clock, cache, admitted, served, issued,
          lreq>>

-----------------------------------------------------------------------------
(* Bounds of the model *)

MaxRows == 2
MaxUpgrades == 2
MaxNow == 2

Users == {"u1", "u2"}
\* the upgrade requests that can be in flight at once
Requests == 1..2

-----------------------------------------------------------------------------
(* Values *)

\* Python's None, the value of every unset Optional field.  Ids are pairs
\* and datetimes one-element tuples, so None differs from each of them.
None == <<>>

SubscriptionTier == {"FREE", "PREMIUM"}
SubscriptionStatus == {"ACTIVE", "CANCELLED", "PAST_DUE", "INCOMPLETE"}

\* Ids the billing provider issues are unique: the customer and the
\* subscription of the k-th upgrade request carry its number k.  Number 0
\* is a subscription made outside this application.
CustomerId(k) == <<"cus", k>>
StripeSubId(k) == <<"sub", k>>

\* the billing period (epoch seconds) the provider gives subscription k
\* when it creates it, and the one it reports once the subscription renews
PeriodStart(k) == 10 * k + 10
PeriodEnd(k) == PeriodStart(k) + 10
RenewedStart(k) == PeriodEnd(k)
RenewedEnd(k) == RenewedStart(k) + 10

\* datetime.fromtimestamp: the datetime of an epoch number
fromtimestamp(ts) == <<ts>>

\* the readings datetime.utcnow() can give: the clock never runs backwards
ClockReadings == now..MaxNow
utcnow(t) == <<t>>

FeatureNames ==
    {"daily_quotes", "basic_notifications", "quote_starring",
     "unlimited_starred_quotes", "quote_search", "advanced_notifications",
     "quote_history", "priority_support", "export_quotes",
     "custom_quote_categories"}

FreeFeatureNames == {"daily_quotes", "basic_notifications", "quote_starring"}

get_features_for_tier(tier) ==
    IF tier = "PREMIUM"
    THEN [f \in FeatureNames |-> TRUE]
    ELSE [f \in FeatureNames |-> f \in FreeFeatureNames]

is_active(row) == row.status = "ACTIVE"
is_premium(row) == row.tier = "PREMIUM"

-----------------------------------------------------------------------------
(* SubscriptionRepository *)

NewRow(user_id, tier, cust, ssub, pstart, pend) ==
    [user_id |-> user_id, tier |-> tier, status |-> "ACTIVE",
     stripe_customer_id |-> cust, stripe_subscription_id |-> ssub,
     current_period_start |-> pstart, current_period_end |-> pend,
     cancelled_at |-> None]

\* repo.create: INSERT of one row, status always ACTIVE
create(table, user_id, tier, cust, ssub, pstart, pend) ==
    Append(table, NewRow(user_id, tier, cust, ssub, pstart, pend))

\* the rows a SELECT ... WHERE user_id = :u returns
get_by_user_id(u) == {i \in DOMAIN subs : subs[i].user_id = u}

\* the rows a SELECT ... WHERE stripe_subscription_id = :sid returns
get_by_stripe_subscription_id(sid) ==
    {i \in DOMAIN subs : subs[i].stripe_subscription_id = sid}

\* repo.update: setattr of every field of update_data that was set, then
\* commit.  The unit of work writes a column only when the value assigned
\* differs from the value the session loaded (loaded), so the UPDATE
\* leaves the other columns of the stored row as they are.
update(row, loaded, data) ==
    [f \in DOMAIN row |->
        IF f \in DOMAIN data /\ data[f] # loaded[f] THEN data[f] ELSE row[f]]

\* repo.update_status, the clock reading t
update_status(row, loaded, status, t) ==
    update(row, loaded,
           IF status = "CANCELLED"
           THEN [status |-> status, cancelled_at |-> utcnow(t)]
           ELSE [status |-> status])

\* variant of cancel that stamps the time and leaves the status
cancel_keeping_status(row, loaded, t) ==
    update(row, loaded, [cancelled_at |-> utcnow(t)])

cancel(row, loaded, t) == update_status(row, loaded, "CANCELLED", t)
activate(row, loaded, t) == update_status(row, loaded, "ACTIVE", t)

-----------------------------------------------------------------------------
(* Pydantic schemas *)

SubscriptionUpdateFields ==
    {"status", "stripe_customer_id", "stripe_subscription_id",
     "current_period_start", "current_period_end", "cancelled_at"}

\* SubscriptionUpdate(**kwargs).model_dump(exclude_unset=True): the schema
\* declares no tier field and pydantic ignores keywords it does not declare
SubscriptionUpdate(kwargs) ==
    [f \in (DOMAIN kwargs) \cap SubscriptionUpdateFields |-> kwargs[f]]

-----------------------------------------------------------------------------
(* Results of operations *)

Result(op, user, outcome, value, calls, arg) ==
    [op |-> op, user |-> user, outcome |-> outcome, value |-> value,
     calls |-> calls, arg |-> arg]

NoResult == Result("none", None, "none", None, <<>>, None)

IdleReq ==
    [user |-> None, attempt |-> 0, existing |-> {}, loaded |-> None,
     customer_id |-> None, stripe_subscription |-> None, calls |-> <<>>]

\* the billing-provider calls of upgrade_to_premium, in program order
BillingSteps ==
    <<"create_customer", "create_payment_method",
      "set_default_payment_method", "create_subscription">>

\* rows that requests in flight will still insert
PendingInserts ==
    Cardinality({r \in Requests : pc[r] # "idle" /\ req[r].existing = {}})

\* the rate-limit keys: the one the decorator builds for the client of the
\* login requests, and the one is_allowed is called with directly
RateLimitKeys == {"auth:client", "key"}

\* an auth request slot with no request in it
\* an is_allowed call that has not started
IdleCall == [pc |-> "idle", current_time |-> 0, request_times |-> <<>>]

IdleAuthReq ==
    [op |-> "idle", pc |-> "idle", email |-> None, token |-> None,
     password_hash |-> None, user |-> 0]

Init ==
    /\ subs = <<>>
    /\ pc = [r \in Requests |-> "idle"]
    /\ req = [r \in Requests |-> IdleReq]
    /\ attempts = 0
    /\ now = 1
    /\ last = NoResult
    /\ users = <<>>
    /\ areq = [r \in Requests |-> IdleAuthReq]
    /\ ntok = 0
    /\ clock = 0
    /\ cache = [k \in RateLimitKeys |-> None]
    /\ admitted = <<>>
    /\ served = <<>>
    /\ issued = {}
    /\ lreq = [r \in Requests |-> IdleCall]

-----------------------------------------------------------------------------
(* SubscriptionService: reads *)

\* scalar_one_or_none raises MultipleResultsFound on more than one row
MultipleResultsFound(rows) == Cardinality(rows) > 1

\* scalar_one_or_none: the only row, or None
scalar_one_or_none(rows) ==
    IF rows = {} THEN None ELSE subs[CHOOSE i \in rows : TRUE]

get_user_subscription(u) == scalar_one_or_none(get_by_user_id(u))

get_subscription_status(u) ==
    LET subscription == get_user_subscription(u) IN
    IF subscription # None /\ is_active(subscription)
    THEN [subscription |-> subscription,
          is_premium |-> is_premium(subscription),
          features |-> get_features_for_tier(subscription.tier)]
    ELSE [subscription |-> subscription,
          is_premium |-> FALSE,
          features |-> get_features_for_tier("FREE")]

\* variant of get_available_features that goes by the stored tier alone
get_available_features_by_tier(u) ==
    LET subscription == get_user_subscription(u) IN
    IF subscription = None
    THEN get_features_for_tier("FREE")
    ELSE get_features_for_tier(subscription.tier)

get_available_features(u) ==
    LET subscription == get_user_subscription(u) IN
    IF subscription = None \/ ~is_active(subscription)
    THEN get_features_for_tier("FREE")
    ELSE get_features_for_tier(subscription.tier)

\* has_access = feature in features: membership in the keys of the table
check_feature_access(u, feature) ==
    LET subscription == get_user_subscription(u) IN
    IF subscription = None \/ ~is_active(subscription)
    THEN FALSE
    ELSE feature \in DOMAIN get_features_for_tier(subscription.tier)

\* feature names a client asks about; the last one is in no table
FeatureInputs == FeatureNames \cup {"no_such_feature"}

-----------------------------------------------------------------------------
(* SubscriptionService: create_free_subscription *)

\* "Create a free subscription for new user": called for a user who has
\* no row; the insert itself looks at nothing
CreateFreeSubscription(u) ==
    /\ get_by_user_id(u) = {}
    /\ Len(subs) + PendingInserts < MaxRows
    /\ subs' = create(subs, u, "FREE", None, None, None, None)
    /\ last' = Result("create_free_subscription", u, "ok", Len(subs'), <<>>, None)
    /\ UNCHANGED <<pc, req, attempts, now, authVars, clock, limiterVars, sessionVars>>

-----------------------------------------------------------------------------
(* SubscriptionService: upgrade_to_premium *)

\* variant of AlreadyPremium that lets every row through
AlreadyPremium_unchecked(existing) == FALSE

AlreadyPremium(existing) ==
    existing # None /\ is_premium(existing) /\ is_active(existing)

\* the locals of upgrade_to_premium for user u after its lookup
StartedRequest(u) ==
    [IdleReq EXCEPT !.user = u, !.attempt = attempts + 1,
                    !.existing = get_by_user_id(u),
                    !.loaded = get_user_subscription(u)]

\* what the billing provider answers to create_subscription
StripeSubscription(k) ==
    [id |-> StripeSubId(k),
     current_period_start |-> PeriodStart(k),
     current_period_end |-> PeriodEnd(k)]

\* the locals once every billing-provider call has answered
BilledRequest(q) ==
    [q EXCEPT !.customer_id = CustomerId(q.attempt),
              !.stripe_subscription = StripeSubscription(q.attempt),
              !.calls = BillingSteps]

\* variant of UpgradeKwargs that passes no status
UpgradeKwargs_without_status(q) ==
    [tier |-> "PREMIUM",
     stripe_customer_id |-> q.customer_id,
     stripe_subscription_id |-> q.stripe_subscription.id,
     current_period_start |->
         fromtimestamp(q.stripe_subscription.current_period_start),
     current_period_end |->
         fromtimestamp(q.stripe_subscription.current_period_end),
     cancelled_at |-> None]

\* the keywords upgrade_to_premium passes to SubscriptionUpdate
UpgradeKwargs(q) ==
    [tier |-> "PREMIUM",
     status |-> "ACTIVE",
     stripe_customer_id |-> q.customer_id,
     stripe_subscription_id |-> q.stripe_subscription.id,
     current_period_start |->
         fromtimestamp(q.stripe_subscription.current_period_start),
     current_period_end |->
         fromtimestamp(q.stripe_subscription.current_period_end),
     cancelled_at |-> None]

\* the row upgrade_to_premium returns: the one it loaded, or the new one
UpgradedRow(q) ==
    IF q.existing # {} THEN CHOOSE i \in q.existing : TRUE ELSE Len(subs) + 1

\* create or update the local subscription
UpgradedTable(q) ==
    IF q.existing # {}
    THEN [subs EXCEPT ![UpgradedRow(q)] =
            update(@, q.loaded, SubscriptionUpdate(UpgradeKwargs(q)))]
    ELSE create(subs, q.user, "PREMIUM", q.customer_id,
                q.stripe_subscription.id,
                fromtimestamp(q.stripe_subscription.current_period_start),
                fromtimestamp(q.stripe_subscription.current_period_end))

\* what the billing provider answered to the request
ProviderAnswers(q) ==
    [customer |-> q.customer_id, subscription |-> q.stripe_subscription]

\* the lookup raises, or the user already holds an active premium row
UpgradeRejected(u) ==
    LET rows == get_by_user_id(u) IN
    /\ \/ /\ MultipleResultsFound(rows)
          /\ last' = Result("upgrade_to_premium", u, "MultipleResultsFound",
                            None, <<>>, None)
       \/ /\ ~MultipleResultsFound(rows)
          /\ AlreadyPremium(scalar_one_or_none(rows))
          /\ last' = Result("upgrade_to_premium", u, "ValueError",
                            None, <<>>, None)
    /\ UNCHANGED <<subs, pc, req, attempts, now, authVars, clock, limiterVars, sessionVars>>

\* upgrade_to_premium may go on to the billing provider
UpgradeAdmitted(u) ==
    /\ ~MultipleResultsFound(get_by_user_id(u))
    /\ ~AlreadyPremium(get_user_subscription(u))
    /\ attempts < MaxUpgrades
    /\ get_by_user_id(u) = {} => Len(subs) + PendingInserts < MaxRows

\* variant of UpgradeStripeError that has written the row by the time the
\* call raises
UpgradeStripeError_row_written(u, k) ==
    LET q == BilledRequest(StartedRequest(u)) IN
    /\ UpgradeAdmitted(u)
    /\ subs' = UpgradedTable(q)
    /\ last' = Result("upgrade_to_premium", u, "StripeError", None,
                      SubSeq(BillingSteps, 1, k), None)
    /\ attempts' = attempts + 1
    /\ UNCHANGED <<pc, req, now, authVars, clock, limiterVars, sessionVars>>

\* the k-th billing-provider call raises StripeError, which
\* upgrade_to_premium does not catch
UpgradeStripeError(u, k) ==
    /\ UpgradeAdmitted(u)
    /\ last' = Result("upgrade_to_premium", u, "StripeError", None,
                      SubSeq(BillingSteps, 1, k), None)
    /\ attempts' = attempts + 1
    /\ UNCHANGED <<subs, pc, req, now, authVars, clock, limiterVars, sessionVars>>

\* every billing-provider call answers
UpgradeToPremium(u) ==
    LET q == BilledRequest(StartedRequest(u)) IN
    /\ UpgradeAdmitted(u)
    /\ subs' = UpgradedTable(q)
    /\ last' = Result("upgrade_to_premium", u, "ok", UpgradedRow(q),
                      q.calls, ProviderAnswers(q))
    /\ attempts' = attempts + 1
    /\ UNCHANGED <<pc, req, now, authVars, clock, limiterVars, sessionVars>>

-----------------------------------------------------------------------------
(* SubscriptionService: cancel_subscription *)

CancelRejected(u) ==
    LET rows == get_by_user_id(u)
        subscription == scalar_one_or_none(rows) IN
    /\ \/ /\ MultipleResultsFound(rows)
          /\ last' = Result("cancel_subscription", u, "MultipleResultsFound",
                            None, <<>>, None)
       \/ /\ ~MultipleResultsFound(rows)
          /\ IF subscription = None THEN TRUE ELSE ~is_premium(subscription)
          /\ last' = Result("cancel_subscription", u, "ValueError",
                            None, <<>>, None)
    /\ UNCHANGED <<subs, pc, req, attempts, now, authVars, clock, limiterVars, sessionVars>>

\* variant of Cancellable that accepts a row of any tier
Cancellable_any_tier(u) ==
    /\ ~MultipleResultsFound(get_by_user_id(u))
    /\ get_user_subscription(u) # None

Cancellable(u) ==
    /\ ~MultipleResultsFound(get_by_user_id(u))
    /\ get_user_subscription(u) # None
    /\ is_premium(get_user_subscription(u))

\* the billing-provider calls cancel_subscription makes for a row
CancelCalls(row) ==
    IF row.stripe_subscription_id # None
    THEN <<"cancel_subscription">> ELSE <<>>

\* stripe_service.cancel_subscription raises; the row is not touched
CancelStripeError(u) ==
    /\ Cancellable(u)
    /\ CancelCalls(get_user_subscription(u)) # <<>>
    /\ last' = Result("cancel_subscription", u, "StripeError", None,
                      CancelCalls(get_user_subscription(u)), None)
    /\ UNCHANGED <<subs, pc, req, attempts, now, authVars, clock, limiterVars, sessionVars>>

CancelSubscription(u) ==
    LET i == CHOOSE i \in get_by_user_id(u) : TRUE IN
    /\ Cancellable(u)
    /\ \E t \in ClockReadings :
          /\ subs' = [subs EXCEPT ![i] = cancel(@, @, t)]
          /\ now' = t
    /\ last' = Result("cancel_subscription", u, "ok", i,
                      CancelCalls(subs[i]), None)
    /\ UNCHANGED <<pc, req, attempts, authVars, clock, limiterVars, sessionVars>>

-----------------------------------------------------------------------------
(* Stripe webhook: POST /webhooks/stripe and handle_stripe_webhook *)

HandledTypes ==
    {"customer.subscription.created", "customer.subscription.updated",
     "customer.subscription.deleted", "invoice.payment_succeeded",
     "invoice.payment_failed"}

InvoiceTypes == {"invoice.payment_succeeded", "invoice.payment_failed"}

\* statuses the provider reports; the last stands for every other string
ProviderStatuses == {"active", "canceled", "past_due", "incomplete", "trialing"}

\* numbers of the subscriptions the provider sends events about: those a
\* row holds, those of requests past create_subscription, and 0, which
\* stands for every subscription whose id no row holds
ProviderSubs ==
    {k \in 0..attempts :
        \/ k = 0
        \/ get_by_stripe_subscription_id(StripeSubId(k)) # {}
        \/ \E r \in Requests : pc[r] = "write" /\ req[r].attempt = k}

\* event["data"]["object"] carries what the handler of its type reads
SubscriptionEvent(type, sid) == [type |-> type, id |-> sid]

SubscriptionUpdatedEvent(sid, status, pstart, pend) ==
    [type |-> "customer.subscription.updated", id |-> sid, status |-> status,
     current_period_start |-> pstart, current_period_end |-> pend]

InvoiceEvent(type, sid) == [type |-> type, subscription |-> sid]

OtherEvent == [type |-> "customer.created"]

\* the statuses reported for subscription k; one is enough for k = 0,
\* where no row is there to take it
ReportedStatuses(k) == IF k = 0 THEN {"active"} ELSE ProviderStatuses

EventsAbout(k) ==
    {SubscriptionEvent(t, StripeSubId(k)) :
        t \in {"customer.subscription.created", "customer.subscription.deleted"}}
    \cup {SubscriptionUpdatedEvent(StripeSubId(k), st,
                                   RenewedStart(k), RenewedEnd(k)) :
            st \in ReportedStatuses(k)}
    \cup {InvoiceEvent(t, StripeSubId(k)) : t \in InvoiceTypes}

Events ==
    UNION {EventsAbout(k) : k \in ProviderSubs}
    \cup {InvoiceEvent(t, None) : t \in InvoiceTypes}
    \cup {OtherEvent}

\* variant of _map_stripe_status_to_local whose default is ACTIVE
_map_stripe_status_default_active(stripe_status) ==
    CASE stripe_status = "active" -> "ACTIVE"
      [] stripe_status = "canceled" -> "CANCELLED"
      [] stripe_status = "past_due" -> "PAST_DUE"
      [] stripe_status = "incomplete" -> "INCOMPLETE"
      [] OTHER -> "ACTIVE"

_map_stripe_status_to_local(stripe_status) ==
    CASE stripe_status = "active" -> "ACTIVE"
      [] stripe_status = "canceled" -> "CANCELLED"
      [] stripe_status = "past_due" -> "PAST_DUE"
      [] stripe_status = "incomplete" -> "INCOMPLETE"
      [] OTHER -> "INCOMPLETE"

\* the row an event handler writes, given the row it found and the clock
\* variant of _handle_subscription_created that leaves a cancelled row alone
_handle_subscription_created_unless_cancelled(row, ev, t) ==
    IF row.status = "CANCELLED" THEN row
    ELSE update_status(row, row, "ACTIVE", t)

_handle_subscription_created(row, ev, t) ==
    update_status(row, row, "ACTIVE", t)

_handle_subscription_updated(row, ev, t) ==
    update(row, row,
           SubscriptionUpdate(
             [status |-> _map_stripe_status_to_local(ev.status),
              current_period_start |-> fromtimestamp(ev.current_period_start),
              current_period_end |-> fromtimestamp(ev.current_period_end)]))

\* variant of _handle_subscription_deleted that also unlinks the row from
\* the billing subscription
_handle_subscription_deleted_unlinking(row, ev, t) ==
    [cancel(row, row, t) EXCEPT !.stripe_subscription_id = None]

_handle_subscription_deleted(row, ev, t) == cancel(row, row, t)

_handle_payment_succeeded(row, ev, t) == activate(row, row, t)

_handle_payment_failed(row, ev, t) == update_status(row, row, "PAST_DUE", t)

\* the rows a handler finds: invoice handlers skip a missing subscription id
Matched(ev) ==
    IF ev.type \in InvoiceTypes
    THEN IF ev.subscription = None THEN {}
         ELSE get_by_stripe_subscription_id(ev.subscription)
    ELSE get_by_stripe_subscription_id(ev.id)

\* the if/elif chain of handle_stripe_webhook: the handler of the type
Dispatch(row, ev, t) ==
    CASE ev.type = "customer.subscription.created" ->
            _handle_subscription_created(row, ev, t)
      [] ev.type = "customer.subscription.updated" ->
            _handle_subscription_updated(row, ev, t)
      [] ev.type = "customer.subscription.deleted" ->
            _handle_subscription_deleted(row, ev, t)
      [] ev.type = "invoice.payment_succeeded" ->
            _handle_payment_succeeded(row, ev, t)
      [] ev.type = "invoice.payment_failed" ->
            _handle_payment_failed(row, ev, t)

\* the table after the handler wrote the row it found
HandledTable(ev, t) ==
    [i \in DOMAIN subs |->
        IF i \in Matched(ev) THEN Dispatch(subs[i], ev, t) ELSE subs[i]]

\* variant of handle_stripe_webhook that fails when the lookup finds no row
handle_stripe_webhook_row_required(ev, t) ==
    IF ev.type \notin HandledTypes
    THEN [table |-> subs, success |-> FALSE]
    ELSE IF Cardinality(Matched(ev)) # 1
    THEN [table |-> subs, success |-> FALSE]
    ELSE [table |-> HandledTable(ev, t), success |-> TRUE]

\* handle_stripe_webhook: the table it leaves and the boolean it returns;
\* an exception inside a handler is caught and answered with False
handle_stripe_webhook(ev, t) ==
    IF ev.type \notin HandledTypes
    THEN [table |-> subs, success |-> FALSE]
    ELSE IF MultipleResultsFound(Matched(ev))
    THEN [table |-> subs, success |-> FALSE]
    ELSE [table |-> HandledTable(ev, t), success |-> TRUE]

\* whether handling the event reads the clock
ReadsClock(ev) ==
    /\ ev.type = "customer.subscription.deleted"
    /\ Cardinality(Matched(ev)) = 1

\* what stripe_webhook does after parse_webhook_event answered
WebhookResponse(invoked, success, sig, ev) ==
    Result("stripe_webhook", None,
           IF ~invoked THEN "400" ELSE IF success THEN "200" ELSE "500",
           [invoked |-> invoked, success |-> success], <<>>,
           [signature |-> sig, event |-> ev])

\* variant of StripeWebhookRejected that hands an event to the service
\* whatever the signature
StripeWebhookRejected_unverified(sig) ==
    /\ sig \in {"missing", "invalid"}
    /\ \E ev \in Events :
          LET handled == handle_stripe_webhook(ev, now) IN
          /\ subs' = handled.table
          /\ last' = WebhookResponse(TRUE, handled.success, sig, ev)
    /\ UNCHANGED <<pc, req, attempts, now, authVars, clock, limiterVars, sessionVars>>

\* POST /webhooks/stripe with a signature header that is absent or that
\* construct_event refuses: 400 before the service is called
StripeWebhookRejected(sig) ==
    /\ sig \in {"missing", "invalid"}
    /\ last' = WebhookResponse(FALSE, FALSE, sig, None)
    /\ UNCHANGED <<subs, pc, req, attempts, now, authVars, clock, limiterVars, sessionVars>>

\* POST /webhooks/stripe with a verified event
StripeWebhook(ev) ==
    /\ \E t \in (IF ReadsClock(ev) THEN ClockReadings ELSE {now}) :
          LET handled == handle_stripe_webhook(ev, t) IN
          /\ subs' = handled.table
          /\ now' = t
          /\ last' = WebhookResponse(TRUE, handled.success, "valid", ev)
    /\ UNCHANGED <<pc, req, attempts, authVars, clock, limiterVars, sessionVars>>

-----------------------------------------------------------------------------
(* Spec: every request is served to its end before the next one *)

Next ==
    \/ \E u \in Users : CreateFreeSubscription(u)
    \/ \E u \in Users : UpgradeRejected(u)
    \/ \E u \in Users, k \in DOMAIN BillingSteps : UpgradeStripeError(u, k)
    \/ \E u \in Users : UpgradeToPremium(u)
    \/ \E u \in Users : CancelRejected(u)
    \/ \E u \in Users : CancelStripeError(u)
    \/ \E u \in Users : CancelSubscription(u)
    \/ \E sig \in {"missing", "invalid"} : StripeWebhookRejected(sig)
    \/ \E ev \in Events : StripeWebhook(ev)

Spec == Init /\ [][Next]_vars

-----------------------------------------------------------------------------
(* upgrade_to_premium step by step: it awaits the billing provider between
   its lookup and its write, and other requests run meanwhile *)

\* lookup done and not already premium: on to the billing provider;
\* the request takes the first free slot
UpgradeBegin(r, u) ==
    /\ pc[r] = "idle"
    /\ \A o \in Requests : o < r => pc[o] # "idle"
    /\ UpgradeAdmitted(u)
    /\ req' = [req EXCEPT ![r] = StartedRequest(u)]
    /\ pc' = [pc EXCEPT ![r] = "billing"]
    /\ attempts' = attempts + 1
    /\ UNCHANGED <<subs, now, last, authVars, clock, limiterVars, sessionVars>>

\* the k-th billing-provider call raises StripeError
UpgradeFails(r, k) ==
    /\ pc[r] = "billing"
    /\ last' = Result("upgrade_to_premium", req[r].user, "StripeError", None,
                      SubSeq(BillingSteps, 1, k), None)
    /\ req' = [req EXCEPT ![r] = IdleReq]
    /\ pc' = [pc EXCEPT ![r] = "idle"]
    /\ UNCHANGED <<subs, attempts, now, authVars, clock, limiterVars, sessionVars>>

\* every billing-provider call answered: the subscription exists there
UpgradeBilled(r) ==
    /\ pc[r] = "billing"
    /\ req' = [req EXCEPT ![r] = BilledRequest(@)]
    /\ pc' = [pc EXCEPT ![r] = "write"]
    /\ UNCHANGED <<subs, attempts, now, last, authVars, clock, limiterVars, sessionVars>>

\* create or update the local subscription, from what the lookup loaded
UpgradeWrite(r) ==
    /\ pc[r] = "write"
    /\ subs' = UpgradedTable(req[r])
    /\ last' = Result("upgrade_to_premium", req[r].user, "ok",
                      UpgradedRow(req[r]), req[r].calls,
                      ProviderAnswers(req[r]))
    /\ req' = [req EXCEPT ![r] = IdleReq]
    /\ pc' = [pc EXCEPT ![r] = "idle"]
    /\ UNCHANGED <<attempts, now, authVars, clock, limiterVars, sessionVars>>

\* the requests that write, interleaved with the steps of upgrades
NextSteps ==
    \/ \E u \in Users : CreateFreeSubscription(u)
    \/ \E r \in Requests, u \in Users : UpgradeBegin(r, u)
    \/ \E r \in Requests, k \in DOMAIN BillingSteps : UpgradeFails(r, k)
    \/ \E r \in Requests : UpgradeBilled(r)
    \/ \E r \in Requests : UpgradeWrite(r)
    \/ \E u \in Users : CancelSubscription(u)
    \/ \E ev \in Events : StripeWebhook(ev)

SpecSteps == Init /\ [][NextSteps]_vars

-----------------------------------------------------------------------------
(* POST /subscription/upgrade: the route around upgrade_to_premium *)

\* the except clauses of upgrade_subscription, which enclose the whole
\* body: ValueError answers 400, every other Exception 500; HTTPException
\* is an Exception and no ValueError
upgrade_subscription_except(exception) ==
    IF exception = "ValueError" THEN "400" ELSE "500"

\* what the route answers; called tells whether it got as far as
\* upgrade_to_premium
RouteResult(u, status, called, calls, raised) ==
    Result("upgrade_subscription", u, status, [called |-> called], calls,
           [raised |-> raised])

\* the route's own lookup raises, or finds an active premium row and
\* raises HTTPException(400) inside the try block
RouteUpgradeRejected(u) ==
    LET rows == get_by_user_id(u) IN
    /\ \/ /\ MultipleResultsFound(rows)
          /\ last' = RouteResult(u,
                        upgrade_subscription_except("MultipleResultsFound"),
                        FALSE, <<>>, "MultipleResultsFound")
       \/ /\ ~MultipleResultsFound(rows)
          /\ AlreadyPremium(scalar_one_or_none(rows))
          /\ last' = RouteResult(u,
                        upgrade_subscription_except("HTTPException"),
                        FALSE, <<>>, "HTTPException")
    /\ UNCHANGED <<subs, pc, req, attempts, now, authVars, clock, limiterVars, sessionVars>>

\* upgrade_to_premium raises StripeError at its k-th billing-provider call
RouteUpgradeStripeError(u, k) ==
    /\ UpgradeAdmitted(u)
    /\ last' = RouteResult(u, upgrade_subscription_except("StripeError"),
                           TRUE, SubSeq(BillingSteps, 1, k), "StripeError")
    /\ attempts' = attempts + 1
    /\ UNCHANGED <<subs, pc, req, now, authVars, clock, limiterVars, sessionVars>>

\* upgrade_to_premium returns the subscription
RouteUpgrade(u) ==
    LET q == BilledRequest(StartedRequest(u)) IN
    /\ UpgradeAdmitted(u)
    /\ subs' = UpgradedTable(q)
    /\ last' = RouteResult(u, "200", TRUE, q.calls, None)
    /\ attempts' = attempts + 1
    /\ UNCHANGED <<pc, req, now, authVars, clock, limiterVars, sessionVars>>

\* the subscription routes, every request served to its end
NextRoutes ==
    \/ \E u \in Users : CreateFreeSubscription(u)
    \/ \E u \in Users : RouteUpgradeRejected(u)
    \/ \E u \in Users, k \in DOMAIN BillingSteps : RouteUpgradeStripeError(u, k)
    \/ \E u \in Users : RouteUpgrade(u)
    \/ \E u \in Users : CancelSubscription(u)
    \/ \E ev \in Events : StripeWebhook(ev)

SpecRoutes == Init /\ [][NextRoutes]_vars

-----------------------------------------------------------------------------
(* Accounts: values *)

MaxTokens == 3
MaxDays == 2

Emails == {"a@example.com", "b@example.com"}
Passwords == {"pw1", "pw2"}

\* hash_password: a hash that verifies against its password and no other
hash_password(password) == <<"bcrypt", password>>

\* secrets.token_urlsafe(32): the k-th token handed out, no two alike;
\* Token(0) stands for every string that was never handed out
Token(k) == <<"tok", k>>

\* the tokens a request can present
PresentedTokens == {Token(k) : k \in 0..ntok}

\* timedelta(hours=h), in seconds
hours(h) == h * 3600

\* datetime.utcnow() + timedelta(hours=1), the clock reading t
get_password_reset_expiration(t) == <<t + hours(1)>>

\* datetime.utcnow() + timedelta(hours=24)
get_email_verification_expiration(t) == <<t + hours(24)>>

\* the instants at which account requests arrive: a day and an hour apart,
\* so that every token handed out at one instant has expired by the next
AccountInstants == {d * hours(25) : d \in 0..MaxDays}

-----------------------------------------------------------------------------
(* the users table and UserRepository *)

\* User(...) with the column defaults; created_at is the insert time t
NewUser(email, password_hash, t) ==
    [email |-> email, password_hash |-> password_hash,
     is_active |-> TRUE, is_verified |-> FALSE, subscription_tier |-> "FREE",
     created_at |-> <<t>>, last_login_at |-> None,
     email_verification_token |-> None,
     email_verification_expires_at |-> None,
     password_reset_token |-> None,
     password_reset_expires_at |-> None]

\* variant of IntegrityError for a users table without the unique index
IntegrityError_no_index(table, email) == FALSE

\* the unique index on users.email refuses a second row with the email
IntegrityError(table, email) == \E i \in DOMAIN table : table[i].email = email

\* UserRepository.create: INSERT of one row
user_create(table, email, password_hash, t) ==
    Append(table, NewUser(email, password_hash, t))

get_by_email(table, email) == {i \in DOMAIN table : table[i].email = email}

\* column > column in a WHERE clause: not true when either is NULL
later(a, b) == a # None /\ b # None /\ a[1] > b[1]

\* the token matches and "Token not expired": the expiry is compared with
\* the row's created_at
get_by_verification_token(table, token) ==
    {i \in DOMAIN table :
        /\ table[i].email_verification_token = token
        /\ later(table[i].email_verification_expires_at, table[i].created_at)}

get_by_reset_token(table, token) ==
    {i \in DOMAIN table :
        /\ table[i].password_reset_token = token
        /\ later(table[i].password_reset_expires_at, table[i].created_at)}

update_password(table, id, password_hash) ==
    [table EXCEPT ![id].password_hash = password_hash]

set_verification_token(table, id, token, expires_at) ==
    [table EXCEPT ![id].email_verification_token = token,
                  ![id].email_verification_expires_at = expires_at]

set_reset_token(table, id, token, expires_at) ==
    [table EXCEPT ![id].password_reset_token = token,
                  ![id].password_reset_expires_at = expires_at]

\* variant of verify_email that leaves the token in the row
verify_email_token_kept(table, id) ==
    [table EXCEPT ![id].is_verified = TRUE]

\* UserRepository.verify_email
verify_email(table, id) ==
    [table EXCEPT ![id].is_verified = TRUE,
                  ![id].email_verification_token = None,
                  ![id].email_verification_expires_at = None]

clear_reset_token(table, id) ==
    [table EXCEPT ![id].password_reset_token = None,
                  ![id].password_reset_expires_at = None]

-----------------------------------------------------------------------------
(* AuthService and the auth routes, every request served to its end *)

\* register_user: the lookup finds the email
RegisterConflict(e, p) ==
    /\ get_by_email(users, e) # {}
    /\ last' = Result("register_user", e, "ConflictError", None, <<>>, None)
    /\ UNCHANGED <<users, areq, ntok, clock, subscriptionVars, limiterVars, sessionVars>>

\* the table register_user leaves for a new email: the row, then its token
RegisteredTable(table, e, password_hash, id, k, t) ==
    set_verification_token(user_create(table, e, password_hash, t), id,
                           Token(k), get_email_verification_expiration(t))

\* register_user for an email no row holds; returns the user and the token
RegisterUser(e, p) ==
    /\ get_by_email(users, e) = {}
    /\ ntok < MaxTokens
    /\ users' = RegisteredTable(users, e, hash_password(p), Len(users) + 1,
                                ntok + 1, clock)
    /\ ntok' = ntok + 1
    /\ last' = Result("register_user", e, "ok",
                      [user |-> Len(users) + 1, token |-> Token(ntok + 1)],
                      <<>>, None)
    /\ UNCHANGED <<areq, clock, subscriptionVars, limiterVars, sessionVars>>

\* AuthService.verify_email with the presented token
VerifyEmail(token) ==
    LET rows == get_by_verification_token(users, token) IN
    /\ IF rows = {}
       THEN /\ users' = users
            /\ last' = Result("verify_email", None, "ValidationError", None,
                              <<>>, [token |-> token])
       ELSE /\ users' = verify_email(users, CHOOSE i \in rows : TRUE)
            /\ last' = Result("verify_email", None, "ok",
                              CHOOSE i \in rows : TRUE, <<>>,
                              [token |-> token])
    /\ UNCHANGED <<areq, ntok, clock, subscriptionVars, limiterVars, sessionVars>>

\* variant of forgot_password_message that tells an unknown email apart
forgot_password_message_revealing(rows) ==
    IF rows = {}
    THEN "User not found"
    ELSE "If the email exists, a password reset link has been sent"

\* the message AuthService.forgot_password returns, given the rows its
\* lookup found: one return statement for each case
forgot_password_message(rows) ==
    IF rows = {}
    THEN "If the email exists, a password reset link has been sent"
    ELSE "If the email exists, a password reset link has been sent"

\* what POST /auth/forgot-password answers for the email in this state
ForgotPasswordResponse(e) ==
    [status |-> "200",
     body |-> [message |-> forgot_password_message(get_by_email(users, e))]]

\* _send_email catches every error of the mail provider and returns False
MailOutcomes == {"sent", "ClientError"}

\* POST /auth/forgot-password: the service sets a reset token on the row
\* of the email, if there is one; the route then mails it
ForgotPassword(e, mail) ==
    LET rows == get_by_email(users, e) IN
    /\ rows # {} => ntok < MaxTokens
    /\ IF rows = {}
       THEN /\ mail = "sent"   \* no mail goes out: one case of mail is enough
            /\ UNCHANGED <<users, ntok>>
            /\ last' = Result("forgot_password", e,
                              ForgotPasswordResponse(e).status,
                              ForgotPasswordResponse(e).body, <<>>, None)
       ELSE /\ users' = set_reset_token(users, CHOOSE i \in rows : TRUE,
                                        Token(ntok + 1),
                                        get_password_reset_expiration(clock))
            /\ ntok' = ntok + 1
            /\ last' = Result("forgot_password", e,
                              ForgotPasswordResponse(e).status,
                              ForgotPasswordResponse(e).body,
                              <<"send_password_reset_email", mail>>, None)
    /\ UNCHANGED <<areq, clock, subscriptionVars, limiterVars, sessionVars>>

\* reset_password: the lookup finds no row for the token
ResetRejected(token, p) ==
    /\ get_by_reset_token(users, token) = {}
    /\ last' = Result("reset_password", None, "ValidationError", None, <<>>,
                      [token |-> token])
    /\ UNCHANGED <<users, areq, ntok, clock, subscriptionVars, limiterVars, sessionVars>>

\* reset_password: lookup, update_password, clear_reset_token
ResetPassword(token, p) ==
    LET rows == get_by_reset_token(users, token)
        id == CHOOSE i \in rows : TRUE IN
    /\ rows # {}
    /\ users' = clear_reset_token(
                    update_password(users, id, hash_password(p)), id)
    /\ last' = Result("reset_password", None, "ok", id, <<>>,
                      [token |-> token])
    /\ UNCHANGED <<areq, ntok, clock, subscriptionVars, limiterVars, sessionVars>>

\* time passes until the instant t
AccountTimePasses(t) ==
    /\ t > clock
    /\ clock' = t
    /\ UNCHANGED <<users, areq, ntok, last, subscriptionVars, limiterVars, sessionVars>>

NextAuth ==
    \/ \E e \in Emails, p \in Passwords : RegisterConflict(e, p)
    \/ \E e \in Emails, p \in Passwords : RegisterUser(e, p)
    \/ \E token \in PresentedTokens : VerifyEmail(token)
    \/ \E e \in Emails, mail \in MailOutcomes : ForgotPassword(e, mail)
    \/ \E token \in PresentedTokens, p \in Passwords : ResetRejected(token, p)
    \/ \E token \in PresentedTokens, p \in Passwords : ResetPassword(token, p)
    \/ \E t \in AccountInstants : AccountTimePasses(t)

SpecAuth == Init /\ [][NextAuth]_vars

-----------------------------------------------------------------------------
(* AuthService step by step: register_user and reset_password await the
   database between their statements, and other requests run meanwhile *)

\* the request takes the first free slot
FreeSlot(r) ==
    /\ areq[r].op = "idle"
    /\ \A o \in Requests : o < r => areq[o].op # "idle"

\* register_user: the lookup found no row for the email
RegisterBegin(r, e, p) ==
    /\ FreeSlot(r)
    /\ get_by_email(users, e) = {}
    /\ areq' = [areq EXCEPT ![r] =
                  [IdleAuthReq EXCEPT !.op = "register_user", !.pc = "create",
                                      !.email = e,
                                      !.password_hash = hash_password(p)]]
    /\ UNCHANGED <<users, ntok, clock, last, subscriptionVars, limiterVars, sessionVars>>

\* user_repo.create: the INSERT, which the unique index may refuse; the
\* service does not catch the error
RegisterCreate(r) ==
    /\ areq[r].pc = "create"
    /\ IF IntegrityError(users, areq[r].email)
       THEN /\ users' = users
            /\ areq' = [areq EXCEPT ![r] = IdleAuthReq]
            /\ last' = Result("register_user", areq[r].email,
                              "IntegrityError", None, <<>>, None)
       ELSE /\ users' = user_create(users, areq[r].email,
                                    areq[r].password_hash, clock)
            /\ areq' = [areq EXCEPT ![r].pc = "set_verification_token",
                                    ![r].user = Len(users) + 1]
            /\ last' = last
    /\ UNCHANGED <<ntok, clock, subscriptionVars, limiterVars, sessionVars>>

\* create_verification_token, set_verification_token, return
RegisterSetToken(r) ==
    /\ areq[r].pc = "set_verification_token"
    /\ ntok < MaxTokens
    /\ users' = set_verification_token(
                    users, areq[r].user, Token(ntok + 1),
                    get_email_verification_expiration(clock))
    /\ ntok' = ntok + 1
    /\ last' = Result("register_user", areq[r].email, "ok",
                      [user |-> areq[r].user, token |-> Token(ntok + 1)],
                      <<>>, None)
    /\ areq' = [areq EXCEPT ![r] = IdleAuthReq]
    /\ UNCHANGED <<clock, subscriptionVars, limiterVars, sessionVars>>

\* reset_password: the lookup found the row of the token
ResetBegin(r, token, p) ==
    LET rows == get_by_reset_token(users, token) IN
    /\ FreeSlot(r)
    /\ rows # {}
    /\ areq' = [areq EXCEPT ![r] =
                  [IdleAuthReq EXCEPT !.op = "reset_password",
                                      !.pc = "update_password",
                                      !.token = token,
                                      !.password_hash = hash_password(p),
                                      !.user = CHOOSE i \in rows : TRUE]]
    /\ UNCHANGED <<users, ntok, clock, last, subscriptionVars, limiterVars, sessionVars>>

\* user_repo.update_password
ResetUpdate(r) ==
    /\ areq[r].pc = "update_password"
    /\ users' = update_password(users, areq[r].user, areq[r].password_hash)
    /\ areq' = [areq EXCEPT ![r].pc = "clear_reset_token"]
    /\ UNCHANGED <<ntok, clock, last, subscriptionVars, limiterVars, sessionVars>>

\* user_repo.clear_reset_token, return True
ResetClear(r) ==
    /\ areq[r].pc = "clear_reset_token"
    /\ users' = clear_reset_token(users, areq[r].user)
    /\ last' = Result("reset_password", None, "ok", areq[r].user, <<>>,
                      [token |-> areq[r].token])
    /\ areq' = [areq EXCEPT ![r] = IdleAuthReq]
    /\ UNCHANGED <<ntok, clock, subscriptionVars, limiterVars, sessionVars>>

NextAuthSteps ==
    \/ \E e \in Emails, p \in Passwords : RegisterConflict(e, p)
    \/ \E r \in Requests, e \in Emails, p \in Passwords : RegisterBegin(r, e, p)
    \/ \E r \in Requests : RegisterCreate(r)
    \/ \E r \in Requests : RegisterSetToken(r)
    \/ \E e \in Emails, mail \in MailOutcomes : ForgotPassword(e, mail)
    \/ \E token \in PresentedTokens, p \in Passwords : ResetRejected(token, p)
    \/ \E r \in Requests, token \in PresentedTokens, p \in Passwords :
          ResetBegin(r, token, p)
    \/ \E r \in Requests : ResetUpdate(r)
    \/ \E r \in Requests : ResetClear(r)

SpecAuthSteps == Init /\ [][NextAuthSteps]_vars

-----------------------------------------------------------------------------
(* Rate limiting: RateLimiter.is_allowed and the rate_limit decorator *)

MaxWindows == 1
MaxCalls == 7
MaxLogins == 7

\* @rate_limit(requests_per_minute=5, window_minutes=1)
requests_per_minute == 5
window_minutes == 1
window_seconds == window_minutes * 60

\* the instants at which calls arrive: the second before, at and after
\* each multiple of the window
LimiterInstants ==
    {t \in {w * window_seconds + o : w \in 0..MaxWindows, o \in {-1, 0, 1}} :
        t >= 0}

\* cache_manager.get(key, default=[]): an entry whose ttl has run out is gone
cache_get(entry, t) ==
    IF entry = None THEN <<>>
    ELSE IF entry.expires <= t THEN <<>> ELSE entry.value

\* cache_manager.set(key, value, ttl)
cache_set(value, ttl, t) == [value |-> value, expires |-> t + ttl]

\* [t for t in request_times if t > window_start]
InWindow(request_times, window_start) ==
    SelectSeq(request_times, LAMBDA x : x > window_start)

\* variant of is_allowed that compares the count with > instead of >=
is_allowed_one_more(entry, t) ==
    LET request_times == InWindow(cache_get(entry, t), t - window_seconds) IN
    IF Len(request_times) > requests_per_minute
    THEN [allowed |-> FALSE, entry |-> entry]
    ELSE [allowed |-> TRUE,
          entry |-> cache_set(Append(request_times, t), window_seconds, t)]

\* RateLimiter.is_allowed at time t: the answer and the cache entry it leaves
is_allowed(entry, t) ==
    LET request_times == InWindow(cache_get(entry, t), t - window_seconds) IN
    IF Len(request_times) >= requests_per_minute
    THEN [allowed |-> FALSE, entry |-> entry]
    ELSE [allowed |-> TRUE,
          entry |-> cache_set(Append(request_times, t), window_seconds, t)]

\* how FastAPI calls the login endpoint: run_endpoint_function passes every
\* parameter by keyword, and login declares login_data and db
LoginCall ==
    [args |-> <<>>,
     kwargs |-> [login_data |-> "UserLogin", db |-> "AsyncSession"]]

\* for arg in args: if isinstance(arg, Request)
RequestIn(args) == {i \in DOMAIN args : args[i] = "Request"}

\* the wrapper of rate_limit around an endpoint: without a Request among
\* the positional arguments it calls the endpoint unchecked
rate_limit(call, entry, t) ==
    IF RequestIn(call.args) = {}
    THEN [status |-> "handler", entry |-> entry]
    ELSE IF is_allowed(entry, t).allowed
         THEN [status |-> "handler", entry |-> is_allowed(entry, t).entry]
         ELSE [status |-> "429", entry |-> entry]

\* a call of RateLimiter.is_allowed("key")
IsAllowed ==
    LET answer == is_allowed(cache["key"], clock) IN
    /\ answer.allowed => Len(admitted) < MaxCalls
    /\ cache' = [cache EXCEPT !["key"] = answer.entry]
    /\ admitted' = IF answer.allowed THEN Append(admitted, clock)
                   ELSE admitted
    /\ last' = Result("is_allowed", None, "ok", answer.allowed, <<>>,
                      [at |-> clock])
    /\ UNCHANGED <<served, clock, lreq, authVars, subscriptionVars, sessionVars>>

\* POST /auth/login from the client, through the decorator
LoginRequest ==
    LET gate == rate_limit(LoginCall, cache["auth:client"], clock) IN
    /\ Len(served) < MaxLogins
    /\ cache' = [cache EXCEPT !["auth:client"] = gate.entry]
    /\ served' = Append(served, gate.status)
    /\ last' = Result("login", None, gate.status, None, <<>>, [at |-> clock])
    /\ UNCHANGED <<admitted, clock, lreq, authVars, subscriptionVars, sessionVars>>

\* time passes until the instant t; the login requests before it are no
\* longer rapid ones
LimiterTimePasses(t) ==
    /\ t > clock
    /\ clock' = t
    /\ served' = <<>>
    /\ UNCHANGED <<cache, admitted, last, lreq, authVars, subscriptionVars, sessionVars>>

NextLimiter ==
    \/ IsAllowed
    \/ LoginRequest
    \/ \E t \in LimiterInstants : LimiterTimePasses(t)

SpecLimiter == Init /\ [][NextLimiter]_vars

-----------------------------------------------------------------------------
(* RateLimiter.is_allowed step by step: the coroutine gives way at its two
   awaits, the cache read and the cache write *)

\* up to the first return: the clock is read, the cached list is fetched and
\* filtered, and the call answers False at the limit
is_allowed_read(entry, t) ==
    LET request_times == InWindow(cache_get(entry, t), t - window_seconds) IN
    IF Len(request_times) >= requests_per_minute
    THEN [pc |-> "idle", current_time |-> t, request_times |-> request_times]
    ELSE [pc |-> "write", current_time |-> t,
          request_times |-> Append(request_times, t)]

\* variant of is_allowed_write that appends to the list the cache holds now
is_allowed_write_merging(q, entry, t) ==
    cache_set(Append(InWindow(cache_get(entry, t),
                              q.current_time - window_seconds),
                     q.current_time),
              window_seconds, t)

\* cache_manager.set of the list the call built from what it read
is_allowed_write(q, entry, t) == cache_set(q.request_times, window_seconds, t)

\* is_allowed("key") up to the await of the cache write, or to return False
IsAllowedRead(r) ==
    /\ lreq[r].pc = "idle"
    /\ \A o \in Requests : o < r => lreq[o].pc # "idle"
    /\ LET q == is_allowed_read(cache["key"], clock) IN
       IF q.pc = "idle"
       THEN /\ last' = Result("is_allowed", None, "ok", FALSE, <<>>,
                              [at |-> clock])
            /\ UNCHANGED lreq
       ELSE /\ Len(admitted) + Cardinality({o \in Requests :
                                              lreq[o].pc = "write"}) < MaxCalls
            /\ lreq' = [lreq EXCEPT ![r] = q]
            /\ UNCHANGED last
    /\ UNCHANGED <<cache, admitted, served, clock, authVars, subscriptionVars,
                   sessionVars>>

\* the cache write of the call and its return True
IsAllowedWrite(r) ==
    /\ lreq[r].pc = "write"
    /\ cache' = [cache EXCEPT !["key"] =
                    is_allowed_write(lreq[r], cache["key"], clock)]
    /\ admitted' = Append(admitted, lreq[r].current_time)
    /\ lreq' = [lreq EXCEPT ![r] = IdleCall]
    /\ last' = Result("is_allowed", None, "ok", TRUE, <<>>,
                      [at |-> lreq[r].current_time])
    /\ UNCHANGED <<served, clock, authVars, subscriptionVars, sessionVars>>

\* time passes, calls in flight or not
LimiterStepsTimePasses(t) ==
    /\ t > clock
    /\ clock' = t
    /\ UNCHANGED <<cache, admitted, served, lreq, last, authVars,
                   subscriptionVars, sessionVars>>

NextLimiterSteps ==
    \/ \E r \in Requests : IsAllowedRead(r)
    \/ \E r \in Requests : IsAllowedWrite(r)
    \/ \E t \in LimiterInstants : LimiterStepsTimePasses(t)

SpecLimiterSteps == Init /\ [][NextLimiterSteps]_vars

-----------------------------------------------------------------------------
(* Sessions: login, access tokens, the authenticated routes, deactivation *)

ACCESS_TOKEN_EXPIRE_MINUTES == 30

\* str(user.id) of users row i, the value a Subscription.user_id refers to
str_id(i) == IF i = 1 THEN "u1" ELSE "u2"

\* passlib's verify: the hash is the hash of this password
verify_password(plain_password, hashed_password) ==
    hashed_password = hash_password(plain_password)

\* UserRepository.get_by_id: the rows with this id
get_by_id(table, id) == {i \in DOMAIN table : i = id}

\* UserRepository.update_last_login: last_login_at takes the value of the
\* row's updated_at column, which the model does not carry; the model records
\* that the column was written
update_last_login(table, id) ==
    [table EXCEPT ![id].last_login_at = <<"updated_at">>]

\* UserRepository.deactivate
deactivate(table, id) == [table EXCEPT ![id].is_active = FALSE]

\* create_access_token: the payload, its expiry and issue time, signed with
\* the server's key
create_access_token(data, t) ==
    [sub |-> data.sub, email |-> data.email,
     subscription_tier |-> data.subscription_tier, type |-> data.type,
     exp |-> <<t + ACCESS_TOKEN_EXPIRE_MINUTES * 60>>, iat |-> <<t>>,
     key |-> "SECRET_KEY"]

\* create_token_response: the access token for this user
create_token_response(user_id, email, subscription_tier, t) ==
    create_access_token([sub |-> user_id, email |-> email,
                         subscription_tier |-> subscription_tier,
                         type |-> "access"], t)

\* a token signed with a key that is not the server's
ForgedToken ==
    [sub |-> 1, email |-> "a@example.com", subscription_tier |-> "PREMIUM",
     type |-> "access", exp |-> <<ACCESS_TOKEN_EXPIRE_MINUTES * 60>>,
     iat |-> <<0>>, key |-> "other"]

\* the bearer tokens a client can present
BearerTokens == issued \cup {ForgedToken}

\* verify_token: the payload of a token with a good signature that has not
\* expired, otherwise None
verify_token(token, t) ==
    IF token.key = "SECRET_KEY" /\ token.exp[1] > t THEN <<token>> ELSE None

\* extract_user_from_token
extract_user_from_token(token, t) ==
    LET payload == verify_token(token, t) IN
    IF payload = None THEN None
    ELSE <<[user_id |-> payload[1].sub, email |-> payload[1].email,
            subscription_tier |-> payload[1].subscription_tier]>>

\* the get_current_user dependency: the user data of the token, or None for
\* the 401 it raises
get_current_user(token, t) == extract_user_from_token(token, t)

\* what login_user answers for these credentials
LoginOutcome(e, p) ==
    LET rows == get_by_email(users, e) IN
    IF rows = {} THEN "AuthenticationError"
    ELSE LET user == users[CHOOSE i \in rows : TRUE] IN
         IF ~verify_password(p, user.password_hash) THEN "AuthenticationError"
         ELSE IF ~user.is_active THEN "UnauthorizedError"
         ELSE "ok"

\* AuthService.login_user
LoginUser(e, p) ==
    /\ IF LoginOutcome(e, p) = "ok"
       THEN LET id == CHOOSE i \in get_by_email(users, e) : TRUE
                token == create_token_response(id, users[id].email,
                                               users[id].subscription_tier,
                                               clock)
            IN /\ users' = update_last_login(users, id)
               /\ issued' = issued \cup {token}
               /\ last' = Result("login_user", e, "ok",
                                 [access_token |-> token, user |-> id],
                                 <<>>, None)
       ELSE /\ last' = Result("login_user", e, LoginOutcome(e, p), None,
                              <<>>, None)
            /\ UNCHANGED <<users, issued>>
    /\ UNCHANGED <<areq, ntok, clock, subscriptionVars, limiterVars>>

\* POST /auth/deactivate with a bearer token
DeactivateAccount(token) ==
    /\ LET current_user == get_current_user(token, clock) IN
       IF current_user = None
       THEN /\ last' = Result("deactivate_account", None, "401", None, <<>>,
                              token)
            /\ UNCHANGED users
       ELSE IF get_by_id(users, current_user[1].user_id) = {}
       THEN /\ last' = Result("deactivate_account", current_user[1].user_id,
                              "404", None, <<>>, token)
            /\ UNCHANGED users
       ELSE /\ users' = deactivate(users, current_user[1].user_id)
            /\ last' = Result("deactivate_account", current_user[1].user_id,
                              "200", None, <<>>, token)
    /\ UNCHANGED <<areq, ntok, clock, issued, subscriptionVars, limiterVars>>

\* GET /auth/me with a bearer token; the 404 of the handler is raised inside
\* its own try block and leaves as a 500
GetCurrentUserInfo(token) ==
    /\ LET current_user == get_current_user(token, clock) IN
       IF current_user = None
       THEN last' = Result("get_current_user_info", None, "401", None, <<>>,
                           token)
       ELSE IF get_by_id(users, current_user[1].user_id) = {}
       THEN last' = Result("get_current_user_info", current_user[1].user_id,
                           "500", None, <<>>, token)
       ELSE last' = Result("get_current_user_info", current_user[1].user_id,
                           "200", users[current_user[1].user_id], <<>>, token)
    /\ UNCHANGED <<users, areq, ntok, clock, issued, subscriptionVars,
                   limiterVars>>

NextSessions ==
    \/ \E e \in Emails, p \in Passwords : RegisterUser(e, p)
    \/ \E e \in Emails, p \in Passwords : LoginUser(e, p)
    \/ \E token \in BearerTokens : DeactivateAccount(token)
    \/ \E token \in BearerTokens : GetCurrentUserInfo(token)
    \/ \E t \in AccountInstants : AccountTimePasses(t)

SpecSessions == Init /\ [][NextSessions]_vars

\* accounts with subscriptions: a registered user logs in, upgrades, cancels,
\* and the billing provider reports on the subscriptions the rows hold
NextTiers ==
    \/ \E e \in Emails, p \in {"pw1"} : RegisterUser(e, p)
    \/ \E e \in Emails, p \in {"pw1"} : LoginUser(e, p)
    \/ \E i \in DOMAIN users : CreateFreeSubscription(str_id(i))
    \/ \E i \in DOMAIN users : UpgradeToPremium(str_id(i))
    \/ \E i \in DOMAIN users : CancelSubscription(str_id(i))
    \/ \E k \in ProviderSubs \ {0} : \E ev \in EventsAbout(k) :
            StripeWebhook(ev)

SpecTiers == Init /\ [][NextTiers]_vars

-----------------------------------------------------------------------------
(* Properties *)

\* the two flag tables, flag by flag
FreeTierTable ==
    [daily_quotes |-> TRUE, basic_notifications |-> TRUE,
     quote_starring |-> TRUE, unlimited_starred_quotes |-> FALSE,
     quote_search |-> FALSE, advanced_notifications |-> FALSE,
     quote_history |-> FALSE, priority_support |-> FALSE,
     export_quotes |-> FALSE, custom_quote_categories |-> FALSE]

PremiumTierTable ==
    [daily_quotes |-> TRUE, basic_notifications |-> TRUE,
     quote_starring |-> TRUE, unlimited_starred_quotes |-> TRUE,
     quote_search |-> TRUE, advanced_notifications |-> TRUE,
     quote_history |-> TRUE, priority_support |-> TRUE,
     export_quotes |-> TRUE, custom_quote_categories |-> TRUE]

HasNoRow(u) == get_by_user_id(u) = {}
HasOneRow(u) == Cardinality(get_by_user_id(u)) = 1
TheRow(u) == subs[CHOOSE i \in get_by_user_id(u) : TRUE]

\* the table of the tier a user effectively has: the stored tier while the
\* row is ACTIVE, FREE otherwise
EffectiveTable(u) ==
    IF HasOneRow(u) /\ TheRow(u).status = "ACTIVE" /\ TheRow(u).tier = "PREMIUM"
    THEN PremiumTierTable
    ELSE FreeTierTable

\* C1: a user who has no row, or whose row has a status other than ACTIVE,
\* gets exactly the FREE flag table from get_available_features and from
\* get_subscription_status, and is_premium = false; a PREMIUM row that is
\* PAST_DUE (or CANCELLED, or INCOMPLETE) grants nothing beyond FREE.
C1_InactiveGetsFreeTable ==
    \A u \in Users :
        (HasNoRow(u) \/ (HasOneRow(u) /\ TheRow(u).status # "ACTIVE")) =>
            /\ get_available_features(u) = FreeTierTable
            /\ get_subscription_status(u).features = FreeTierTable
            /\ get_subscription_status(u).is_premium = FALSE

C1_PastDuePremium ==
    \E u \in Users :
        /\ HasOneRow(u)
        /\ TheRow(u).tier = "PREMIUM"
        /\ TheRow(u).status = "PAST_DUE"
        /\ get_subscription_status(u).subscription = TheRow(u)

\* C2: after upgrade_to_premium returns, the user's row is PREMIUM and
\* ACTIVE and carries the customer id, the subscription id and the billing
\* period the provider answered, whatever the user had before (no row, an
\* ACTIVE FREE row, a PREMIUM row that is not ACTIVE).
C2_UpgradeLeavesPremiumActive ==
    (last.op = "upgrade_to_premium" /\ last.outcome = "ok") =>
        LET row == subs[last.value]
            answered == last.arg.subscription IN
        /\ row.user_id = last.user
        /\ row.tier = "PREMIUM"
        /\ row.status = "ACTIVE"
        /\ row.stripe_customer_id = last.arg.customer
        /\ row.stripe_subscription_id = answered.id
        /\ row.current_period_start = <<answered.current_period_start>>
        /\ row.current_period_end = <<answered.current_period_end>>

\* C3: upgrade_to_premium for a user whose row is PREMIUM and ACTIVE raises
\* the already-subscribed error, calls the billing provider not once, and
\* leaves the table as it was.
C3_AlreadyPremiumRejected ==
    [][\A u \in Users :
        ( /\ last'.op = "upgrade_to_premium"
          /\ last'.user = u
          /\ HasOneRow(u)
          /\ TheRow(u).tier = "PREMIUM"
          /\ TheRow(u).status = "ACTIVE" ) =>
            /\ last'.outcome = "ValueError"
            /\ last'.calls = <<>>
            /\ attempts' = attempts
            /\ subs' = subs]_vars

C3_RejectedWhilePremium ==
    /\ last.op = "upgrade_to_premium"
    /\ last.outcome = "ValueError"
    /\ HasOneRow(last.user)
    /\ TheRow(last.user).tier = "PREMIUM"
    /\ TheRow(last.user).status = "ACTIVE"

\* C4: when a billing-provider call of upgrade_to_premium raises, the error
\* reaches the caller, the calls made are the steps up to the failing one
\* and no later one, and the table is as it was.
C4_BillingFailureLeavesTable ==
    [][(last'.op = "upgrade_to_premium" /\ last'.outcome = "StripeError") =>
        /\ \E k \in 1..4 :
              last'.calls =
                  SubSeq(<<"create_customer", "create_payment_method",
                           "set_default_payment_method",
                           "create_subscription">>, 1, k)
        /\ last'.value = None
        /\ subs' = subs]_vars

C4_FailedAtSetDefault ==
    /\ last.op = "upgrade_to_premium"
    /\ last.outcome = "StripeError"
    /\ Len(last.calls) = 3
    /\ HasOneRow(last.user)
    /\ TheRow(last.user).tier = "FREE"

\* C5: check_feature_access(user, feature) returns the value the flag has
\* in the table of the user's effective tier: a user without a row is
\* granted daily_quotes, a user with an ACTIVE FREE row is denied
\* quote_search.
C5_AccessIsTheFlag ==
    \A u \in Users, f \in FeatureNames :
        ~MultipleResultsFound(get_by_user_id(u)) =>
            check_feature_access(u, f) = EffectiveTable(u)[f]

\* C6: after cancel_subscription returns for a PREMIUM row, the row is
\* CANCELLED with a cancelled_at that is not null, and for as long as the
\* status stays CANCELLED check_feature_access(user, quote_search) is false.
C6_CancelledLosesSearch ==
    /\ (last.op = "cancel_subscription" /\ last.outcome = "ok") =>
          /\ subs[last.value].user_id = last.user
          /\ subs[last.value].status = "CANCELLED"
          /\ subs[last.value].cancelled_at # None
    /\ \A u \in Users :
          (HasOneRow(u) /\ TheRow(u).status = "CANCELLED") =>
              check_feature_access(u, "quote_search") = FALSE

C6_PremiumCancelled ==
    /\ last.op = "cancel_subscription"
    /\ last.outcome = "ok"
    /\ last.calls = <<"cancel_subscription">>
    /\ subs[last.value].tier = "PREMIUM"
    /\ subs[last.value].status = "CANCELLED"

\* C7: cancel_subscription for a user who has no row, or whose row is
\* FREE, raises, calls the billing provider not once, and changes no row.
C7_NothingToCancel ==
    [][\A u \in Users :
        ( /\ last'.op = "cancel_subscription"
          /\ last'.user = u
          /\ (HasNoRow(u) \/ (HasOneRow(u) /\ TheRow(u).tier = "FREE")) ) =>
            /\ last'.outcome = "ValueError"
            /\ last'.calls = <<>>
            /\ subs' = subs]_vars

C7_FreeRowNotCancelled ==
    /\ last.op = "cancel_subscription"
    /\ last.outcome = "ValueError"
    /\ HasOneRow(last.user)
    /\ TheRow(last.user).tier = "FREE"
    /\ TheRow(last.user).stripe_subscription_id # None

\* the status each handled event leaves, by the dispatch table
StatusByDispatch(ev) ==
    CASE ev.type = "customer.subscription.created" -> "ACTIVE"
      [] ev.type = "customer.subscription.deleted" -> "CANCELLED"
      [] ev.type = "invoice.payment_succeeded" -> "ACTIVE"
      [] ev.type = "invoice.payment_failed" -> "PAST_DUE"
      [] ev.type = "customer.subscription.updated" ->
            IF ev.status = "active" THEN "ACTIVE"
            ELSE IF ev.status = "canceled" THEN "CANCELLED"
            ELSE IF ev.status = "past_due" THEN "PAST_DUE"
            ELSE "INCOMPLETE"

\* C8: for an event of a handled type whose subscription id matches a row,
\* handle_stripe_webhook returns true and the row has the status of the
\* dispatch table (created ACTIVE, deleted CANCELLED, payment succeeded
\* ACTIVE, payment failed PAST_DUE, updated the mapped provider status with
\* INCOMPLETE for any other string and the period overwritten).
C8_HandledEventSetsStatus ==
    (last.op = "stripe_webhook" /\ last.value.invoked) =>
        LET ev == last.arg.event IN
        (ev.type \in HandledTypes /\ Cardinality(Matched(ev)) = 1) =>
            LET row == subs[CHOOSE i \in Matched(ev) : TRUE] IN
            /\ last.value.success
            /\ row.status = StatusByDispatch(ev)
            /\ ev.type = "customer.subscription.updated" =>
                  /\ row.current_period_start = <<ev.current_period_start>>
                  /\ row.current_period_end = <<ev.current_period_end>>

C8_UpdatedWithOtherStatus ==
    /\ last.op = "stripe_webhook"
    /\ last.value.invoked
    /\ last.arg.event.type = "customer.subscription.updated"
    /\ last.arg.event.status = "trialing"
    /\ \E i \in Matched(last.arg.event) :
          /\ subs[i].status = "INCOMPLETE"
          /\ subs[i].current_period_start = <<last.arg.event.current_period_start>>

\* C9: an event of a handled type whose subscription id matches no row
\* does not make handle_stripe_webhook raise or fail, creates no row and
\* leaves every row as it was.
C9_UnknownSubscriptionIgnored ==
    [][(last'.op = "stripe_webhook" /\ last'.value.invoked) =>
        LET ev == last'.arg.event IN
        (ev.type \in HandledTypes /\ Matched(ev) = {}) =>
            /\ last'.value.success
            /\ last'.outcome = "200"
            /\ subs' = subs]_vars

C9_UnknownIdWithRows ==
    /\ last.op = "stripe_webhook"
    /\ last.value.invoked
    /\ last.arg.event.type = "customer.subscription.deleted"
    /\ Matched(last.arg.event) = {}
    /\ \E i \in DOMAIN subs : subs[i].stripe_subscription_id # None
    /\ last.value.success

\* C10: POST /webhooks/stripe whose signature is missing or invalid is
\* answered with 400, handle_stripe_webhook is not invoked, and no row
\* changes.
C10_BadSignatureRejected ==
    [][(last'.op = "stripe_webhook" /\ last'.arg.signature # "valid") =>
        /\ last'.outcome = "400"
        /\ ~last'.value.invoked
        /\ subs' = subs]_vars

C10_InvalidSignatureWithRows ==
    /\ last.op = "stripe_webhook"
    /\ last.arg.signature = "invalid"
    /\ last.outcome = "400"
    /\ \E i \in DOMAIN subs : subs[i].stripe_subscription_id # None

\* C11: POST /webhooks/stripe with a validly signed event of a type the
\* service does not recognise is acknowledged with a success response, not
\* an error status, and no row changes.
C11_UnknownTypeAcknowledged ==
    [][( /\ last'.op = "stripe_webhook"
         /\ last'.value.invoked
         /\ last'.arg.event.type \notin
               {"customer.subscription.created",
                "customer.subscription.updated",
                "customer.subscription.deleted",
                "invoice.payment_succeeded", "invoice.payment_failed"} ) =>
            /\ last'.outcome = "200"
            /\ subs' = subs]_vars

\* C12: in every reachable state a user has at most one row, also when two
\* upgrade requests for the same user, or an upgrade and
\* create_free_subscription, interleave between the existence check and
\* the insert.
C12_OneRowPerUser ==
    \A u \in Users : Cardinality(get_by_user_id(u)) <= 1

-----------------------------------------------------------------------------
(* Properties of the accounts *)

\* the token is the verification token of a row and its expiry has passed
ExpiredVerificationToken(token) ==
    \E i \in DOMAIN users :
        /\ users[i].email_verification_token = token
        /\ users[i].email_verification_expires_at # None
        /\ users[i].email_verification_expires_at[1] < clock

\* the token is the reset token of a row and its expiry has passed
ExpiredResetToken(token) ==
    \E i \in DOMAIN users :
        /\ users[i].password_reset_token = token
        /\ users[i].password_reset_expires_at # None
        /\ users[i].password_reset_expires_at[1] < clock

\* C13: a verify_email or reset_password request that presents a token
\* whose expiry time has passed is rejected as invalid/expired and changes
\* no field of any user.
C13_ExpiredTokenRejected ==
    [][( /\ clock' = clock
         /\ \/ /\ last'.op = "verify_email"
               /\ ExpiredVerificationToken(last'.arg.token)
            \/ /\ last'.op = "reset_password"
               /\ ExpiredResetToken(last'.arg.token) ) =>
            /\ last'.outcome = "ValidationError"
            /\ users' = users]_vars

\* C14: a password-reset token authorizes at most one password change:
\* once reset_password has succeeded with a token, no other reset_password
\* with that token, later or interleaved with the first, changes the
\* password hash.
C14_ResetTokenUsedOnce ==
    [][\A r \in Requests :
          ( /\ last.op = "reset_password"
            /\ last.outcome = "ok"
            /\ areq[r].op = "reset_password"
            /\ areq[r].token = last.arg.token
            /\ areq'[r] # areq[r] ) =>
                users'[areq[r].user].password_hash =
                    users[areq[r].user].password_hash]_vars

\* the rows that hold the token as their verification token
HoldersOf(token) ==
    {i \in DOMAIN users : users[i].email_verification_token = token}

\* C15: a newly registered user is unverified with tier FREE; verify_email
\* with the token issued at registration sets is_verified and clears the
\* token and its expiry; every later verify_email with that token fails.
\* The last part is stated by its induction: a successful verify_email
\* leaves the token in no row, a token already handed out never enters a
\* row again, and verify_email with a token no row holds fails and changes
\* nothing.
C15_VerifiedOnceByToken ==
    [][ /\ ( /\ last'.op = "register_user"
             /\ last'.outcome = "ok"
             /\ Len(users') > Len(users) ) =>
                /\ ~users'[last'.value.user].is_verified
                /\ users'[last'.value.user].subscription_tier = "FREE"
                /\ users'[last'.value.user].email_verification_token =
                       last'.value.token
        /\ (last'.op = "verify_email" /\ clock' = clock) =>
              IF HoldersOf(last'.arg.token) # {}
              THEN /\ last'.outcome = "ok"
                   /\ \A i \in HoldersOf(last'.arg.token) :
                         /\ users'[i].is_verified
                         /\ users'[i].email_verification_token = None
                         /\ users'[i].email_verification_expires_at = None
              ELSE /\ last'.outcome = "ValidationError"
                   /\ users' = users
        /\ \A i \in DOMAIN users', k \in 1..ntok :
              users'[i].email_verification_token = Token(k) =>
                  i \in HoldersOf(Token(k)) ]_vars

\* the only token handed out, that of the registration of user 1, was
\* presented once more after it had verified the user
C15_SecondVerifyFailed ==
    /\ ntok = 1
    /\ Len(users) >= 1
    /\ users[1].is_verified
    /\ last.op = "verify_email"
    /\ last.outcome = "ValidationError"
    /\ last.arg.token = Token(1)

\* C16: no two rows of the users table share an email, also after two
\* registrations with the same email interleave; register_user called with
\* an email that a row holds is rejected with a conflict error and creates
\* no user (it never goes on to the insert).
C16_EmailUnique ==
    [][ /\ \A i, j \in DOMAIN users' :
              users'[i].email = users'[j].email => i = j
        /\ \A r \in Requests :
              (areq[r].op = "idle" /\ areq'[r].op = "register_user") =>
                  get_by_email(users, areq'[r].email) = {}
        /\ \A e \in Emails :
              ( /\ get_by_email(users, e) # {}
                /\ areq' = areq
                /\ last' # last
                /\ last'.op = "register_user"
                /\ last'.user = e ) =>
                    /\ last'.outcome = "ConflictError"
                    /\ users' = users ]_vars

\* a registration that passed its lookup was refused at the insert,
\* because another registration of the same email got there first
C16_SecondInsertRefused ==
    /\ last.op = "register_user"
    /\ last.outcome = "IntegrityError"
    /\ get_by_email(users, last.user) # {}

\* C17: forgot-password answers an email that belongs to a user and an
\* email that belongs to no user alike: the status and the message of the
\* response given are those every other email would get in the same state.
C17_ForgotPasswordSameAnswer ==
    [][(last'.op = "forgot_password" /\ clock' = clock) =>
          \A e \in Emails :
              /\ last'.outcome = ForgotPasswordResponse(e).status
              /\ last'.value = ForgotPasswordResponse(e).body]_vars

\* forgot-password was answered for an email that belongs to no user, in
\* a state where the other email belongs to one
C17_UnknownEmailAnswered ==
    /\ last.op = "forgot_password"
    /\ get_by_email(users, last.user) = {}
    /\ \E e \in Emails : get_by_email(users, e) # {}

-----------------------------------------------------------------------------
(* Properties of the rate limiter *)

\* the admitted calls inside the window that ends at time t
AdmittedInWindow(history, t) ==
    {j \in DOMAIN history :
        history[j] > t - window_seconds /\ history[j] <= t}

C19_LoginGated ==
    \A i \in DOMAIN served :
        served[i] = IF i <= requests_per_minute THEN "handler" ELSE "429"

-----------------------------------------------------------------------------
(* Properties of the upgrade route *)

\* the 4xx statuses
ClientErrorStatuses == {"400", "401", "403", "404", "409", "422", "429"}

\* C20: POST /subscription/upgrade by a user whose row is PREMIUM and
\* ACTIVE is answered with a client-error (4xx) response, never with 500,
\* and upgrade_to_premium is not called for it.
C20_SecondUpgradeIsClientError ==
    [][\A u \in Users :
          ( /\ HasOneRow(u)
            /\ is_premium(TheRow(u))
            /\ is_active(TheRow(u))
            /\ last'.op = "upgrade_subscription"
            /\ last'.user = u ) =>
                /\ last'.outcome \in ClientErrorStatuses
                /\ ~last'.value.called
                /\ subs' = subs]_vars

-----------------------------------------------------------------------------
(* Properties of the subscription lifecycle, continued *)

\* the row's billing period has not ended at the latest clock reading
PeriodRunning(row) ==
    /\ row.current_period_end # None
    /\ now < row.current_period_end[1]

\* C21: after a user-initiated cancel of a billing-linked PREMIUM
\* subscription the user keeps premium access through the paid period:
\* check_feature_access for a premium feature answers true as long as the
\* current billing period has not ended.
C21_AccessThroughPaidPeriod ==
    ( /\ last.op = "cancel_subscription"
      /\ last.outcome = "ok"
      /\ HasOneRow(last.user)
      /\ is_premium(TheRow(last.user))
      /\ TheRow(last.user).stripe_subscription_id # None
      /\ PeriodRunning(TheRow(last.user)) ) =>
          check_feature_access(last.user, "quote_search")

\* C22: over any sequence of upgrade, cancel and webhook operations on a
\* row, cancelled_at is set exactly once: once non-null it is never
\* overwritten with another time and never reset to null.
C22_CancelledAtSetOnce ==
    [][\A i \in DOMAIN subs :
          subs[i].cancelled_at # None =>
              subs'[i].cancelled_at = subs[i].cancelled_at]_vars


-----------------------------------------------------------------------------
(* Properties of the accounts with subscriptions *)

\* the tier column of the user's Subscription row, FREE when there is no row
SubscriptionRowTier(u) ==
    IF HasNoRow(u) THEN "FREE" ELSE TheRow(u).tier

\* C23: after every upgrade, cancel and webhook operation the tier on the
\* User row equals the tier of the user's Subscription row, so the tier
\* that login writes into the access token is the tier of the row.
C23_UserTierMirrorsRow ==
    /\ \A i \in DOMAIN users :
           users[i].subscription_tier = SubscriptionRowTier(str_id(i))
    /\ last.op = "login_user" /\ last.outcome = "ok" =>
           last.value.access_token.subscription_tier =
               SubscriptionRowTier(str_id(last.value.user))

-----------------------------------------------------------------------------
(* Properties of the sessions *)

\* the routes behind the get_current_user dependency
AuthenticatedOps == {"get_current_user_info", "deactivate_account"}

\* C30: once a user is deactivated no authenticated operation succeeds for
\* that user: a login with the right password is refused without a token
\* being issued or the last login being written, and a request bearing an
\* access token of that user, issued before the deactivation, is rejected.
C30_DeactivatedLockedOut ==
    [][\A i \in DOMAIN users :
          ~users[i].is_active /\ clock' = clock =>
              /\ IF last'.op = "login_user"
                 THEN last'.user = users[i].email =>
                          /\ last'.outcome # "ok"
                          /\ issued' = issued
                          /\ users'[i].last_login_at = users[i].last_login_at
                 ELSE TRUE
              /\ IF last'.op \in AuthenticatedOps
                 THEN last'.arg.sub = i => last'.outcome = "401"
                 ELSE TRUE]_vars

-----------------------------------------------------------------------------
(* Properties of the webhook deliveries *)

\* C24: webhook handling validates no transition: a handled event delivered
\* for a linked subscription leaves the row in the status the event
\* dictates, whatever the status was before the delivery; so a late
\* payment-failed leaves PAST_DUE after a payment-succeeded, and a created
\* or payment-succeeded event makes a CANCELLED row ACTIVE again.
C24_LastEventDictatesStatus ==
    [][IF last'.op = "stripe_webhook"
       THEN IF last'.value.invoked
            THEN LET ev == last'.arg.event IN
                 IF ev.type \in HandledTypes
                 THEN Cardinality(Matched(ev)) = 1 =>
                          \A i \in Matched(ev) :
                              subs'[i].status = StatusByDispatch(ev)
                 ELSE TRUE
            ELSE TRUE
       ELSE TRUE]_vars

\* a row that was cancelled is ACTIVE after a subscription-created event
C24_CancelledRowActiveAgain ==
    /\ last.op = "stripe_webhook"
    /\ last.value.invoked
    /\ last.arg.event.type = "customer.subscription.created"
    /\ \E i \in Matched(last.arg.event) :
          subs[i].status = "ACTIVE" /\ subs[i].cancelled_at # None

\* C25: a row in status PAST_DUE returns to ACTIVE only through an
\* invoice-payment-succeeded webhook; no other webhook event and no user
\* operation moves a row from PAST_DUE to ACTIVE.
C25_PastDueRecoversByPaymentOnly ==
    [][\A i \in DOMAIN subs :
          IF subs[i].status = "PAST_DUE" /\ subs'[i].status = "ACTIVE"
          THEN /\ last'.op = "stripe_webhook"
               /\ last'.arg.event.type = "invoice.payment_succeeded"
          ELSE TRUE]_vars

\* C27: every row whose status is CANCELLED has a cancellation time,
\* whichever operation cancelled it.
C27_CancelledHasCancelledAt ==
    \A i \in DOMAIN subs :
        subs[i].status = "CANCELLED" => subs[i].cancelled_at # None

\* the rows the delivered event is about, none when it was rejected or is of
\* a type without a handler
RowsOfDelivery(result) ==
    IF ~result.value.invoked THEN {}
    ELSE IF result.arg.event.type \notin HandledTypes THEN {}
    ELSE Matched(result.arg.event)

\* C29: no webhook event changes a row's tier, owning user or billing
\* linkage ids, and an event for one billing subscription id changes no row
\* linked to a different id; so a user whose row has tier FREE has the free
\* feature table after any webhook, as before it.
C29_WebhookKeepsTierAndLinkage ==
    [][IF last'.op = "stripe_webhook"
       THEN /\ DOMAIN subs' = DOMAIN subs
            /\ \A i \in DOMAIN subs :
                  /\ subs'[i].tier = subs[i].tier
                  /\ subs'[i].user_id = subs[i].user_id
                  /\ subs'[i].stripe_customer_id = subs[i].stripe_customer_id
                  /\ subs'[i].stripe_subscription_id =
                         subs[i].stripe_subscription_id
                  /\ i \notin RowsOfDelivery(last') => subs'[i] = subs[i]
                  /\ subs[i].tier = "FREE" =>
                         get_available_features(subs[i].user_id)'
                             = FreeTierTable
       ELSE TRUE]_vars

\* an event was handled for a linked row of tier FREE while another row is
\* linked to a different billing subscription
C29_EventForLinkedFreeRow ==
    /\ last.op = "stripe_webhook"
    /\ \E i \in RowsOfDelivery(last) :
          /\ subs[i].tier = "FREE"
          /\ subs[i].status = "ACTIVE"
          /\ \E j \in DOMAIN subs :
                /\ subs[j].stripe_subscription_id # None
                /\ subs[j].stripe_subscription_id #
                       subs[i].stripe_subscription_id

\* the billing subscription id a handler reads from the event, if any
EventSubscriptionId(ev) ==
    IF ev.type \in InvoiceTypes THEN ev.subscription
    ELSE IF ev.type \in HandledTypes THEN ev.id
    ELSE None

\* the upgrade requests between the provider's create_subscription and the
\* local write whose new billing subscription the event is about
InFlightFor(ev) ==
    {r \in Requests :
        /\ pc[r] = "write"
        /\ EventSubscriptionId(ev) = req[r].stripe_subscription.id}

\* an acknowledged delivery about the new billing subscription of request r,
\* which has not written its row yet
DroppedFor(result, r) ==
    /\ result.op = "stripe_webhook"
    /\ result.value.invoked
    /\ r \in InFlightFor(result.arg.event)

\* a webhook step about the subscription of a request that has not written
\* its row finds no row, changes nothing and is acknowledged
EarlyWebhookDropped ==
    IF last'.op = "stripe_webhook" /\ pc' = pc
    THEN InFlightFor(last'.arg.event) # {} =>
             /\ Matched(last'.arg.event) = {}
             /\ subs' = subs
             /\ last'.value.success
    ELSE TRUE

-----------------------------------------------------------------------------
(* Properties of the rate limiter under interleaving *)

\* the timestamps of the current window that the cache holds for the key
CountedInWindow(entry, t) == InWindow(cache_get(entry, t), t - window_seconds)

\* C26: when is_allowed calls for one key interleave between the cache read
\* and the cache write, a call that was let past the check is admitted and
\* stores the list it read plus its own time, whatever was stored since its
\* read; timestamps of calls admitted in between are lost, the cache never
\* counts more calls of the window than were admitted, and so more than
\* requests_per_minute calls can be admitted within one window.
C26_WriteStoresStaleList ==
    [][/\ \A r \in Requests :
             lreq[r].pc = "write" /\ lreq'[r].pc = "idle" =>
                 /\ last'.value = TRUE
                 /\ admitted' = Append(admitted, lreq[r].current_time)
                 /\ cache'["key"].value = lreq[r].request_times
                 /\ Len(lreq[r].request_times) <= requests_per_minute
       /\ Len(CountedInWindow(cache'["key"], clock'))
              <= Cardinality(AdmittedInWindow(admitted', clock'))]_vars

\* more calls than the limit were admitted within the current window, and
\* the cache counts fewer than were admitted
C26_MoreThanLimitAdmitted ==
    /\ last.op = "is_allowed"
    /\ last.value = TRUE
    /\ Cardinality(AdmittedInWindow(admitted, clock)) > requests_per_minute
    /\ Len(CountedInWindow(cache["key"], clock))
           < Cardinality(AdmittedInWindow(admitted, clock))

=============================================================================
